---- MODULE Spec2Model ----
(***************************************************************************)
(* Model of src/main.py: the salary pipeline (crawl_page, extract_players, *)
(* extract_player, insert_in_limited_array, average, display_salary) and   *)
(* the App object that runs it on a worker thread.                         *)
(*                                                                         *)
(* Python values are represented as follows.                               *)
(*   str          a sequence of one-character strings (text that the code  *)
(*                inspects), or a TLA+ string (text that it only copies)   *)
(*   int / float  a fraction [num, den]; an int has den = 1                *)
(*   None         the record None                                          *)
(*   a call       [exc, val]: the exception raised ("none" if it returned) *)
(*                and the value returned                                   *)
(***************************************************************************)
EXTENDS Integers, Sequences, FiniteSets, TLC

VARIABLES
    btn_state,                  \* self.btn['state']
    self_players,               \* self.players
    self_avg,                   \* self.avg
    self_n_of_corrupted_salaries, \* self.n_of_corrupted_salaries
    self_highest_salaries_125,  \* self.highest_salaries_125
    text_n_corrupted,           \* self.text_n_corrupted
    text_expected_salary,       \* self.text_expected_salary
    text_n_highest_earners,     \* self.text_n_highest_earners
    events,                     \* <<update>> events waiting in the Tk queue
    threads,                    \* the Thread objects started by crawl_and_update
    salary_text,                \* argument of a call of extract_player
    player,                     \* its result
    salary,                     \* argument of a call of display_salary
    shown                       \* its result

vars == <<btn_state, self_players, self_avg, self_n_of_corrupted_salaries,
          self_highest_salaries_125, text_n_corrupted, text_expected_salary,
          text_n_highest_earners, events, threads, salary_text, player,
          salary, shown>>

(***************************************************************************)
(* Bounds of the model and constants of the program.                       *)
(***************************************************************************)
K == 125
N_FIRST_N_HIGHEST_EARNERS == 3
MaxLen == 4
MaxAmount == 1200
MaxRows == 2
MaxRuns == 2
MaxHead == 1
MaxBulk == 126
MaxTail == 1

None == [none |-> TRUE]
Returned(v) == [exc |-> "none", val |-> v]
Raised(e) == [exc |-> e, val |-> None]
IntNum(n) == [num |-> n, den |-> 1]

(***************************************************************************)
(* Text.                                                                   *)
(***************************************************************************)
Digits == <<"0", "1", "2", "3", "4", "5", "6", "7", "8", "9">>
DigitChars == {Digits[i] : i \in 1..10}
IsDigit(c) == c \in DigitChars
DigitVal(c) == (CHOOSE i \in 1..10 : Digits[i] = c) - 1
Whitespace == {" ", "\n"}

\* str.replace(old, '') for a one-character old
Replace(s, old) == SelectSeq(s, LAMBDA c : c # old)

\* str.strip() as int() applies it to its argument
RECURSIVE LStrip(_)
LStrip(s) ==
    IF s # <<>> /\ Head(s) \in Whitespace THEN LStrip(Tail(s)) ELSE s

RECURSIVE RStrip(_)
RStrip(s) ==
    IF s # <<>> /\ s[Len(s)] \in Whitespace
    THEN RStrip(SubSeq(s, 1, Len(s) - 1))
    ELSE s

RECURSIVE ParseDigits(_, _)
ParseDigits(s, acc) ==
    IF s = <<>> THEN acc ELSE ParseDigits(Tail(s), 10 * acc + DigitVal(Head(s)))

\* int(text): surrounding whitespace is ignored, a sign is allowed
ParseInt(text) ==
    LET t == RStrip(LStrip(text))
        signed == t # <<>> /\ Head(t) \in {"-", "+"}
        body == IF signed THEN Tail(t) ELSE t
    IN  IF body = <<>> \/ \E i \in 1..Len(body) : ~IsDigit(body[i])
        THEN Raised("ValueError")
        ELSE IF signed /\ Head(t) = "-"
             THEN Returned(0 - ParseDigits(body, 0))
             ELSE Returned(ParseDigits(body, 0))

\* str(n) for an int n >= 0
RECURSIVE Str(_)
Str(n) == IF n < 10 THEN <<Digits[n + 1]>> ELSE Str(n \div 10) \o <<Digits[(n % 10) + 1]>>

\* '{:03d}'.format(x) for an int x >= 0
Format03d(x) ==
    LET s == Str(x)
    IN  IF Len(s) >= 3 THEN s ELSE [i \in 1..(3 - Len(s)) |-> "0"] \o s

\* sep.join(parts)
RECURSIVE Join(_, _)
Join(sep, parts) ==
    IF parts = <<>> THEN <<>>
    ELSE IF Len(parts) = 1 THEN parts[1]
    ELSE parts[1] \o sep \o Join(sep, Tail(parts))

(***************************************************************************)
(* SALARY_RE is the pattern  ^ \$* \d+ ( \,? \d+ )* $  and is used with     *)
(* search().  The pattern is anchored at both ends, so search() succeeds   *)
(* exactly when the automaton below accepts the whole text; Python's $     *)
(* also matches just before a final newline.  States: "dollars" (reading   *)
(* the leading dollar signs), "digits" (inside a run of digits), "comma"   *)
(* (after the optional comma of a group), "fail".                          *)
(***************************************************************************)
SalaryReStep(q, c) ==
    CASE q = "dollars" /\ c = "$" -> "dollars"
      [] q = "dollars" /\ IsDigit(c) -> "digits"
      [] q = "digits" /\ IsDigit(c) -> "digits"
      [] q = "digits" /\ c = "," -> "comma"
      [] q = "comma" /\ IsDigit(c) -> "digits"
      [] OTHER -> "fail"

RECURSIVE SalaryReRun(_, _)
SalaryReRun(q, s) ==
    IF s = <<>> THEN q ELSE SalaryReRun(SalaryReStep(q, Head(s)), Tail(s))

\* mutant of SALARY_RE_search: the pattern without its final $
SALARY_RE_search_open_end(text) ==
    \E n \in 0..Len(text) : SalaryReRun("dollars", SubSeq(text, 1, n)) = "digits"

SALARY_RE_search(text) ==
    \/ SalaryReRun("dollars", text) = "digits"
    \/ /\ text # <<>>
       /\ text[Len(text)] = "\n"
       /\ SalaryReRun("dollars", SubSeq(text, 1, Len(text) - 1)) = "digits"

(***************************************************************************)
(* Player and extract_player.  A tr is a record of what select_one finds   *)
(* for each of its four cells: an element [text], or None when the row has *)
(* no such cell.  The salary of a Player is an int, or the str 'No data    *)
(* found'.                                                                 *)
(***************************************************************************)
IntSalary(n) == [isint |-> TRUE, n |-> n, s |-> ""]
StrSalary(s) == [isint |-> FALSE, n |-> 0, s |-> s]
Player(name, sal, year, level) ==
    [name |-> name, salary |-> sal, year |-> year, level |-> level]

extract_player(tr) ==
    IF \E f \in {"name", "salary", "year", "level"} : tr[f] = None
    THEN Raised("AttributeError")
    ELSE LET name == tr.name.text
             sal == tr.salary.text
             year == tr.year.text
             level == tr.level.text
         IN  IF SALARY_RE_search(sal)
             THEN LET n == ParseInt(Replace(Replace(Replace(sal, "$"), ","), " "))
                  IN  IF n.exc # "none" THEN Raised(n.exc)
                      ELSE Returned(Player(name, IntSalary(n.val), year, level))
             ELSE Returned(Player(name, StrSalary("No data found"), year, level))

(***************************************************************************)
(* display_salary.  The argument is an int (salary of a Player) or a float *)
(* (self.avg); on both, n % 1000 and n //= 1000 act on the integer part.   *)
(***************************************************************************)
RECURSIVE Peel(_)
Peel(n) ==
    IF n.num = 0 THEN <<>>
    ELSE <<(n.num \div n.den) % 1000>> \o Peel(IntNum(n.num \div (n.den * 1000)))

Reversed(s) == [i \in 1..Len(s) |-> s[Len(s) + 1 - i]]

display_salary(sal) ==
    LET buffer == Reversed(Peel(sal))
    IN  IF buffer = <<>> THEN Raised("IndexError")
        ELSE Returned(<<"$">> \o Join(<<",">>,
                 <<Str(buffer[1])>> \o [i \in 1..(Len(buffer) - 1) |-> Format03d(buffer[i + 1])]))

\* Player.__str__
Player_str(p) ==
    IF p.salary.isint
    THEN LET d == display_salary(IntNum(p.salary.n))
         IN  IF d.exc # "none" THEN Raised(d.exc)
             ELSE Returned([Name |-> p.name, Salary |-> d.val,
                            Year |-> p.year, Level |-> p.level])
    ELSE Returned([Name |-> p.name, Salary |-> <<p.salary.s>>,
                   Year |-> p.year, Level |-> p.level])

(***************************************************************************)
(* crawl_page and extract_players.  A response of requests.get is the      *)
(* record [status_code, rows], or ConnectionFailure when the transport     *)
(* raised; the soup is the sequence of the tr elements of the table body.  *)
(***************************************************************************)
ConnectionFailure == [failed |-> TRUE]

\* mutant of crawl_page: the status code is not looked at
crawl_page_unchecked(response) ==
    IF response = ConnectionFailure THEN Raised("ConnectionError")
    ELSE Returned(response.rows)

crawl_page(response) ==
    IF response = ConnectionFailure THEN Raised("ConnectionError")
    ELSE IF response.status_code # 200 THEN Raised("Exception")
    ELSE Returned(response.rows)

RECURSIVE extract_players_from(_, _)
extract_players_from(rows, players) ==
    IF rows = <<>> THEN Returned(players)
    ELSE LET p == extract_player(Head(rows))
         IN  IF p.exc # "none" THEN Raised(p.exc)
             ELSE extract_players_from(Tail(rows), Append(players, p.val))

extract_players(soup) == extract_players_from(soup, <<>>)

(***************************************************************************)
(* insert_in_limited_array and average.  Each has one caller, which passes *)
(* the lambda modelled here by gt, respectively get_value.                 *)
(***************************************************************************)
\* mutant of gt: ties count as greater
gt_or_equal(a, b) == a.salary.n >= b.salary.n

\* lambda a, b: a.salary > b.salary
gt(a, b) == a.salary.n > b.salary.n

\* lambda x: x.salary
get_value(x) == x.salary.n

\* the first index i with array[i] None or gt(value, array[i]), the place at
\* which the scan of lines 76-78 stops; 0 if the scan reaches the end
FirstSlot(value, array) ==
    LET stops == {i \in 1..Len(array) : array[i] = None \/ gt(value, array[i])}
    IN  IF stops = {} THEN 0 ELSE CHOOSE i \in stops : \A j \in stops : i <= j

\* list.insert(i, value) with i counted from 1
ListInsert(array, i, value) ==
    SubSeq(array, 1, i - 1) \o <<value>> \o SubSeq(array, i, Len(array))

\* mutant of ListPop: pop(0), which removes the first item
ListPop_first(array) == SubSeq(array, 2, Len(array))

\* list.pop()
ListPop(array) == SubSeq(array, 1, Len(array) - 1)

\* mutant of insert_in_limited_array: the last item is not removed
insert_without_pop(value, array) ==
    LET i == FirstSlot(value, array)
    IN  IF i = 0 THEN array ELSE ListInsert(array, i, value)

insert_in_limited_array(value, array) ==
    LET i == FirstSlot(value, array)
    IN  IF i = 0 THEN array ELSE ListPop(ListInsert(array, i, value))

\* the additions of lines 88-91 over array[lo..hi]; integer addition is
\* associative, and they are grouped in halves to keep the evaluation shallow
RECURSIVE Total(_, _, _)
Total(array, lo, hi) ==
    IF lo > hi THEN 0
    ELSE IF lo = hi
         THEN (IF array[lo] # None THEN get_value(array[lo]) ELSE 0)
         ELSE LET mid == (lo + hi) \div 2
              IN  Total(array, lo, mid) + Total(array, mid + 1, hi)

\* mutant of average: divides by the number of items that are not None
average_of_occupied(array) ==
    [num |-> Total(array, 1, Len(array)),
     den |-> Cardinality({i \in 1..Len(array) : array[i] # None})]

\* total / length, a float
average(array) == [num |-> Total(array, 1, Len(array)), den |-> Len(array)]

(***************************************************************************)
(* App.crawl_players, run by a worker thread in steps.  A thread is the    *)
(* record of its position pc and of the locals of crawl_players.           *)
(***************************************************************************)
EmptyArray == [i \in 1..K |-> None]

SelfFields ==
    [players |-> self_players, avg |-> self_avg,
     n_of_corrupted_salaries |-> self_n_of_corrupted_salaries,
     highest_salaries_125 |-> self_highest_salaries_125]

\* A thread just started.  response is the local "page" of crawl_page, exc
\* the exception that ended the thread ("none" so far), and at_start a
\* history field: the stored results when the thread was started.
NewThread ==
    [pc |-> "crawl_page", response |-> None, exc |-> "none", page |-> <<>>,
     players |-> <<>>, i |-> 0, highest_salaries_125 |-> <<>>,
     n_of_corrupted_salaries |-> 0, at_start |-> SelfFields]

\* mutant of LoopIteration: the salary's type is not looked at
LoopIteration_untyped(th) ==
    [th EXCEPT !.i = @ + 1,
               !.highest_salaries_125 =
                   insert_in_limited_array(th.players[th.i + 1], @)]

\* one iteration of "for p in players" (lines 210-214)
LoopIteration(th) ==
    LET p == th.players[th.i + 1]
    IN  IF p.salary.isint
        THEN [th EXCEPT !.i = @ + 1,
                        !.highest_salaries_125 =
                            insert_in_limited_array(p, @)]
        ELSE [th EXCEPT !.i = @ + 1, !.n_of_corrupted_salaries = @ + 1]

(***************************************************************************)
(* Inputs: the responses the server may give.                              *)
(***************************************************************************)
Td(text) == [text |-> text]
NoDataText == <<"No data">>

RowValid ==
    [name |-> Td(<<"A">>), salary |-> Td(<<"$", "1", ",", "5", "0", "0">>),
     year |-> Td(<<"2016">>), level |-> Td(<<"MLB">>)]
RowCorrupted ==
    [name |-> Td(<<"B">>), salary |-> Td(<<"N", "/", "A">>),
     year |-> Td(<<"2016">>), level |-> Td(<<"MLB">>)]
RowMalformed ==
    [name |-> Td(<<"C">>), salary |-> None,
     year |-> Td(<<"2016">>), level |-> Td(<<"MLB">>)]
Rows == {RowValid, RowCorrupted, RowMalformed}
Pages == UNION {[1..n -> Rows] : n \in 0..MaxRows}
Responses ==
    {ConnectionFailure}
    \cup {[status_code |-> c, rows |-> <<>>] : c \in {204, 404}}
    \cup {[status_code |-> 200, rows |-> r] : r \in Pages}

(***************************************************************************)
(* The App.                                                                *)
(***************************************************************************)
AppInit ==
    /\ btn_state = "normal"
    /\ self_players = <<>>
    /\ self_avg = IntNum(0)
    /\ self_n_of_corrupted_salaries = 0
    /\ self_highest_salaries_125 = EmptyArray
    /\ text_n_corrupted = NoDataText
    /\ text_expected_salary = NoDataText
    /\ text_n_highest_earners = [i \in 1..N_FIRST_N_HIGHEST_EARNERS |-> NoDataText]
    /\ events = 0

NoCalls ==
    /\ salary_text = <<>>
    /\ player = None
    /\ salary = 0
    /\ shown = None

Init ==
    /\ AppInit
    /\ threads = <<>>
    /\ NoCalls

appVars == <<btn_state, self_players, self_avg, self_n_of_corrupted_salaries,
             self_highest_salaries_125, text_n_corrupted, text_expected_salary,
             text_n_highest_earners, events, threads>>
callVars == <<salary_text, player, salary, shown>>
textVars == <<text_n_corrupted, text_expected_salary, text_n_highest_earners>>
selfVars == <<self_players, self_avg, self_n_of_corrupted_salaries,
              self_highest_salaries_125>>

\* mutant of crawl_and_update: the button is left enabled
crawl_and_update_enabled ==
    /\ threads' = Append(threads, NewThread)
    /\ UNCHANGED <<btn_state, selfVars, textVars, events, callVars>>

\* App.crawl_and_update: disable the button, start a thread running f
crawl_and_update ==
    /\ btn_state' = "disabled"
    /\ threads' = Append(threads, NewThread)
    /\ UNCHANGED <<selfVars, textVars, events, callVars>>

\* The user presses "Get statistics"; Tk runs the command of a button only
\* while the button is not disabled.
ClickButton ==
    /\ btn_state = "normal"
    /\ Len(threads) < MaxRuns
    /\ crawl_and_update

Running(th) == th.pc \notin {"finished", "raised"}

ThreadOnly(t, th) ==
    /\ threads' = [threads EXCEPT ![t] = th]
    /\ UNCHANGED <<btn_state, selfVars, textVars, events, callVars>>

\* line 203: page = crawl_page()
ThreadCrawlPage(t) ==
    /\ threads[t].pc = "crawl_page"
    /\ \E response \in Responses :
          LET r == crawl_page(response)
          IN  ThreadOnly(t,
                IF r.exc # "none"
                THEN [threads[t] EXCEPT !.pc = "raised", !.exc = r.exc,
                                        !.response = response]
                ELSE [threads[t] EXCEPT !.pc = "extract_players",
                                        !.response = response, !.page = r.val])

\* lines 204-209: players = extract_players(page), then the two locals
ThreadExtractPlayers(t) ==
    /\ threads[t].pc = "extract_players"
    /\ LET r == extract_players(threads[t].page)
       IN  ThreadOnly(t,
             IF r.exc # "none"
             THEN [threads[t] EXCEPT !.pc = "raised", !.exc = r.exc]
             ELSE [threads[t] EXCEPT !.pc = "loop", !.players = r.val, !.i = 0,
                                     !.highest_salaries_125 = EmptyArray,
                                     !.n_of_corrupted_salaries = 0])

\* lines 210-214: one iteration of the loop, or its end
ThreadLoop(t) ==
    /\ threads[t].pc = "loop"
    /\ ThreadOnly(t,
         IF threads[t].i < Len(threads[t].players)
         THEN LoopIteration(threads[t])
         ELSE [threads[t] EXCEPT !.pc = "average"])

\* line 217
ThreadAverage(t) ==
    /\ threads[t].pc = "average"
    /\ self_avg' = average(threads[t].highest_salaries_125)
    /\ threads' = [threads EXCEPT ![t].pc = "set_n_of_corrupted_salaries"]
    /\ UNCHANGED <<btn_state, self_players, self_n_of_corrupted_salaries,
                   self_highest_salaries_125, textVars, events, callVars>>

\* line 218
ThreadSetCorrupted(t) ==
    /\ threads[t].pc = "set_n_of_corrupted_salaries"
    /\ self_n_of_corrupted_salaries' = threads[t].n_of_corrupted_salaries
    /\ threads' = [threads EXCEPT ![t].pc = "set_players"]
    /\ UNCHANGED <<btn_state, self_players, self_avg, self_highest_salaries_125,
                   textVars, events, callVars>>

\* line 219
ThreadSetPlayers(t) ==
    /\ threads[t].pc = "set_players"
    /\ self_players' = threads[t].players
    /\ threads' = [threads EXCEPT ![t].pc = "set_highest_salaries_125"]
    /\ UNCHANGED <<btn_state, self_avg, self_n_of_corrupted_salaries,
                   self_highest_salaries_125, textVars, events, callVars>>

\* line 220
ThreadSetHighest(t) ==
    /\ threads[t].pc = "set_highest_salaries_125"
    /\ self_highest_salaries_125' = threads[t].highest_salaries_125
    /\ threads' = [threads EXCEPT ![t].pc = "event_generate"]
    /\ UNCHANGED <<btn_state, self_players, self_avg, self_n_of_corrupted_salaries,
                   textVars, events, callVars>>

\* line 173: self.event_generate('<<update>>', when='tail'), then f returns
ThreadEventGenerate(t) ==
    /\ threads[t].pc = "event_generate"
    /\ events' = events + 1
    /\ threads' = [threads EXCEPT ![t].pc = "finished"]
    /\ UNCHANGED <<btn_state, selfVars, textVars, callVars>>

ThreadStep(t) ==
    \/ ThreadCrawlPage(t)
    \/ ThreadExtractPlayers(t)
    \/ ThreadLoop(t)
    \/ ThreadAverage(t)
    \/ ThreadSetCorrupted(t)
    \/ ThreadSetPlayers(t)
    \/ ThreadSetHighest(t)
    \/ ThreadEventGenerate(t)

\* App.top_highest_salaries
top_highest_salaries ==
    SubSeq(self_highest_salaries_125, 1, N_FIRST_N_HIGHEST_EARNERS)

\* text shown for the i-th highest earner
EarnerText(i) ==
    LET p == top_highest_salaries[i]
    IN  IF p = None THEN Returned(NoDataText) ELSE Player_str(p)

\* App.update_display, the handler of <<update>>.  An exception raised by
\* display_salary ends the handler where it is raised; the labels set
\* before keep their new text and the others their old one.
update_display ==
    LET avg == display_salary(self_avg)
        reached(i) == /\ avg.exc = "none"
                      /\ \A j \in 1..i : EarnerText(j).exc = "none"
    IN  /\ btn_state' = "normal"
        /\ text_n_corrupted' = Str(self_n_of_corrupted_salaries)
        /\ text_expected_salary' =
              IF avg.exc = "none" THEN avg.val ELSE text_expected_salary
        /\ text_n_highest_earners' =
              [i \in 1..N_FIRST_N_HIGHEST_EARNERS |->
                  IF reached(i) THEN EarnerText(i).val
                  ELSE text_n_highest_earners[i]]
        /\ UNCHANGED <<selfVars, threads, callVars>>

\* The Tk main loop takes the next <<update>> event and runs its handler.
MainloopUpdate ==
    /\ events > 0
    /\ events' = events - 1
    /\ update_display

Next ==
    \/ ClickButton
    \/ \E t \in DOMAIN threads : ThreadCrawlPage(t)
    \/ \E t \in DOMAIN threads : ThreadExtractPlayers(t)
    \/ \E t \in DOMAIN threads : ThreadLoop(t)
    \/ \E t \in DOMAIN threads : ThreadAverage(t)
    \/ \E t \in DOMAIN threads : ThreadSetCorrupted(t)
    \/ \E t \in DOMAIN threads : ThreadSetPlayers(t)
    \/ \E t \in DOMAIN threads : ThreadSetHighest(t)
    \/ \E t \in DOMAIN threads : ThreadEventGenerate(t)
    \/ MainloopUpdate

Spec == Init /\ [][Next]_vars

\* The scheduler runs every started thread, and the main loop every event.
FairSpec ==
    /\ Spec
    /\ WF_vars(\E t \in DOMAIN threads : ThreadStep(t))
    /\ WF_vars(MainloopUpdate)

(***************************************************************************)
(* The loop of crawl_players on long data sets.  The thread is at the      *)
(* start of the loop and the players it iterates over are drawn one at a   *)
(* time: Feed(p) is the iteration on p as the next element of players.     *)
(* The data sets are those made of at most MaxHead players of any salary,  *)
(* then at most MaxBulk players of salary BulkSalary, then at most MaxTail *)
(* players of any salary; the i-th player is named str(i).                 *)
(***************************************************************************)
SalaryValues == {100, 200, 300}
\* the salary that has both a lower and a higher one among SalaryValues
BulkSalary ==
    CHOOSE v \in SalaryValues :
        (\E u \in SalaryValues : u < v) /\ (\E w \in SalaryValues : w > v)
Salaries == {IntSalary(v) : v \in SalaryValues} \cup {StrSalary("No data found")}

InFamily(players) ==
    \E h \in 0..MaxHead, t \in 0..MaxTail :
        /\ h + t <= Len(players)
        /\ Len(players) - h - t <= MaxBulk
        /\ \A j \in (h + 1)..(Len(players) - t) :
              players[j].salary = IntSalary(BulkSalary)

LoopStart ==
    [NewThread EXCEPT !.pc = "loop", !.response = [status_code |-> 200, rows |-> <<>>],
                      !.highest_salaries_125 = EmptyArray]

InitIngest ==
    /\ btn_state = "disabled"
    /\ self_players = <<>>
    /\ self_avg = IntNum(0)
    /\ self_n_of_corrupted_salaries = 0
    /\ self_highest_salaries_125 = EmptyArray
    /\ text_n_corrupted = NoDataText
    /\ text_expected_salary = NoDataText
    /\ text_n_highest_earners = [i \in 1..N_FIRST_N_HIGHEST_EARNERS |-> NoDataText]
    /\ events = 0
    /\ threads = <<LoopStart>>
    /\ NoCalls

Feed(p) ==
    /\ threads[1].pc = "loop"
    /\ threads[1].i = Len(threads[1].players)
    /\ InFamily(Append(threads[1].players, p))
    /\ ThreadOnly(1, LoopIteration([threads[1] EXCEPT !.players = Append(@, p)]))

FeedNext ==
    \E sal \in Salaries :
        Feed(Player(Str(Len(threads[1].players) + 1), sal, <<"2016">>, <<"MLB">>))

\* the loop ends (the data set is complete) and line 217 runs
EndLoop == ThreadLoop(1) \/ ThreadAverage(1)

NextIngest == FeedNext \/ EndLoop

SpecIngest == InitIngest /\ [][NextIngest]_vars

(***************************************************************************)
(* Claims about the ranked set, checked under SpecIngest.                  *)
(***************************************************************************)
Ranked == threads[1].highest_salaries_125
Processed == threads[1].i
Ingested(j) == threads[1].players[j]
Occupied(array) == {k \in 1..Len(array) : array[k] # None}
IsFull(array) == \A k \in 1..Len(array) : array[k] # None

\* The i-th player ingested is named str(i), so the name of an occupant
\* tells which ingested record it is: IngestIndex[k] for the occupant of
\* slot k, and 0 for an empty slot.
IngestIndex ==
    [k \in 1..Len(Ranked) |->
        IF Ranked[k] = None THEN 0 ELSE ParseDigits(Ranked[k].name, 0)]
OccupantsIngested(index) ==
    \A k \in DOMAIN index :
        index[k] # 0 => /\ index[k] \in 1..Processed
                        /\ Ingested(index[k]) = Ranked[k]
PresentIn(index) == {index[k] : k \in DOMAIN index} \ {0}

\* the arrays built by crawl_players: the local of every thread that has
\* reached the loop, and the one stored in self
RankedSets ==
    {self_highest_salaries_125}
    \cup {threads[t].highest_salaries_125 :
            t \in {u \in DOMAIN threads :
                     threads[u].pc \notin {"crawl_page", "extract_players", "raised"}}}

WellFormed(array) ==
    /\ Len(array) = K
    /\ \A k \in 1..(Len(array) - 1) :
          /\ array[k] = None => array[k + 1] = None
          /\ (array[k] # None /\ array[k + 1] # None)
                => array[k].salary.n >= array[k + 1].salary.n

\* C1: after any sequence of ingests starting from the empty set, the ranked
\* set has exactly K = 125 slots, its non-empty slots form a prefix, and
\* their salaries are in non-increasing order.
C1_RankedSetWellFormed == \A array \in RankedSets : WellFormed(array)

\* more than K players ingested, the set full, holding distinct salaries
C1_Witness ==
    /\ Processed > K
    /\ IsFull(Ranked)
    /\ Ranked[1].salary.n > Ranked[K].salary.n

\* C2: every ingested record that is not in the set is corrupted, or is
\* valid with the set full and every occupant's salary >= the record's.
C2_AbsentOnlyIfOutranked ==
    LET index == IngestIndex
        present == PresentIn(index)
        full == IsFull(Ranked)
        lowest == IF full THEN Ranked[Len(Ranked)].salary.n ELSE 0
        outranked(j) ==
            /\ full
            /\ lowest >= Ingested(j).salary.n
            /\ \A k \in 1..Len(Ranked) : Ranked[k].salary.n >= lowest
    IN  /\ OccupantsIngested(index)
        /\ \A j \in (1..Processed) \ present :
              ~Ingested(j).salary.isint \/ outranked(j)

\* the first player, of salary 100, was in the set and has been pushed off
\* its tail by K players of a higher salary
C2_Witness ==
    /\ Processed > K
    /\ Ingested(1).salary = IntSalary(100)
    /\ 1 \notin PresentIn(IngestIndex)
    /\ IsFull(Ranked)

\* Occupants of equal salary stand in the order of their ingestion, and no
\* record is absent while a later one of the same salary is present.  The
\* salaries being in non-increasing order, occupants of equal salary are
\* neighbours, so the order is stated between neighbours.
TieOrder ==
    LET index == IngestIndex
        present == PresentIn(index)
        absent == (1..Processed) \ present
    IN  /\ OccupantsIngested(index)
        /\ WellFormed(Ranked)
        /\ \A k \in 1..(Len(Ranked) - 1) :
              (/\ Ranked[k] # None
               /\ Ranked[k + 1] # None
               /\ Ranked[k].salary.n = Ranked[k + 1].salary.n)
              => index[k] < index[k + 1]
        /\ \A a \in absent, b \in present :
              (a < b /\ Ingested(a).salary.isint)
                  => Ingested(a).salary.n # Ingested(b).salary.n

\* an ingest of a record whose salary equals that of every occupant of a
\* full set leaves the set as it was
TieDropped ==
    (/\ threads'[1].i = Processed + 1
     /\ threads'[1].players[Processed + 1].salary.isint
     /\ IsFull(Ranked)
     /\ \A k \in 1..Len(Ranked) :
           Ranked[k].salary = threads'[1].players[Processed + 1].salary)
    => threads'[1].highest_salaries_125 = Ranked

\* C3: tie stability.  Of two valid records of equal salary the one ingested
\* first occupies the earlier slot whenever both are in the set, the later
\* one is never in the set without the earlier one, and a record that ties
\* with every occupant of a full set is dropped.
C3_TieStability == []TieOrder /\ [][TieDropped]_vars

\* K + 1 players of one salary ingested: the first K occupy the set in the
\* order of ingestion and the last one was dropped
C3_Witness ==
    /\ Processed = K + 1
    /\ \A j \in 1..(K + 1) : Ingested(j).salary = IntSalary(BulkSalary)
    /\ \A k \in 1..K : Ranked[k] = Ingested(k)

CorruptedSeen == {j \in 1..Processed : ~Ingested(j).salary.isint}

CountMatches ==
    /\ threads[1].n_of_corrupted_salaries = Cardinality(CorruptedSeen)
    /\ \A k \in Occupied(Ranked) : Ranked[k].salary.isint

IngestFrame ==
    threads'[1].i = Processed + 1
    => IF threads'[1].players[Processed + 1].salary.isint
       THEN threads'[1].n_of_corrupted_salaries = threads[1].n_of_corrupted_salaries
       ELSE /\ threads'[1].n_of_corrupted_salaries
                  = threads[1].n_of_corrupted_salaries + 1
            /\ threads'[1].highest_salaries_125 = Ranked

\* C4: ingesting a corrupted record adds exactly one to the corrupted count
\* and leaves every slot unchanged, ingesting a valid record leaves the count
\* unchanged; so the count is the number of corrupted records ingested and
\* no occupant of the set has a corrupted salary.
C4_CorruptedCounted == []CountMatches /\ [][IngestFrame]_vars

\* corrupted and valid records have both been ingested
C4_Witness ==
    /\ threads[1].n_of_corrupted_salaries = 2
    /\ Occupied(Ranked) # {}
    /\ Processed > K

RECURSIVE SumOver(_, _)
SumOver(values, array) ==
    IF values = {} THEN 0
    ELSE LET v == CHOOSE x \in values : TRUE
         IN  v * Cardinality({k \in Occupied(array) : array[k].salary.n = v})
             + SumOver(values \ {v}, array)

\* C5: the average is the sum of the salaries of the non-empty slots divided
\* by the capacity K = 125, never by the number of non-empty slots: occupants
\* of salaries 100, 200 and 300 give 600/125, not 200, and the empty set 0.
C5_AverageOverCapacity ==
    threads[1].pc = "set_n_of_corrupted_salaries" =>
        /\ self_avg.den = K
        /\ self_avg.num = SumOver(SalaryValues, Ranked)
        /\ Occupied(Ranked) = {} => self_avg.num = 0

\* the average of a set whose only occupants have salaries 100, 200 and 300
\* has been computed: it is 600/125, which differs from 200
C5_Witness ==
    /\ threads[1].pc = "set_n_of_corrupted_salaries"
    /\ Cardinality(Occupied(Ranked)) = 3
    /\ {Ranked[k].salary.n : k \in Occupied(Ranked)} = {100, 200, 300}
    /\ self_avg = [num |-> 600, den |-> 125]
    /\ self_avg.num # 200 * self_avg.den

(***************************************************************************)
(* Claims about the App, checked under Spec and FairSpec.                  *)
(***************************************************************************)
FetchRefused(th) ==
    /\ th.response # None
    /\ th.response # ConnectionFailure
    /\ th.response.status_code \notin 200..299

\* C8: a run whose fetch gets a non-2xx response ends in an error and
\* produces no result: no completion event, and the stored ranked set,
\* corrupted count, average and player list keep the values they had when
\* the run started.
C8_NoResultOnFetchFailure ==
    \A t \in DOMAIN threads :
        FetchRefused(threads[t]) =>
            /\ threads[t].pc = "raised"
            /\ SelfFields = threads[t].at_start
            /\ events = 0

\* a second run got a 404 after a first run had stored its results
C8_Witness ==
    /\ Len(threads) = 2
    /\ FetchRefused(threads[2])
    /\ threads[2].response.status_code = 404
    /\ self_players # <<>>
    /\ self_n_of_corrupted_salaries = 1

\* C9: every run that is started eventually delivers its completion signal,
\* whether it completed or failed, and the button is eventually re-enabled.
C9_EveryRunCompletes == (btn_state = "disabled") ~> (btn_state = "normal")

InFlight == {t \in DOMAIN threads : Running(threads[t])}

\* C10: at most one run is in flight at any time; while a worker has not
\* posted its completion event the button is disabled, and while the button
\* is enabled no worker is in flight and no completion event is pending.
C10_OneRunInFlight ==
    /\ Cardinality(InFlight) <= 1
    /\ InFlight # {} => (btn_state = "disabled" /\ events = 0)
    /\ btn_state = "normal" => (InFlight = {} /\ events = 0)

\* a second worker is in flight after the first one finished
C10_Witness ==
    /\ Len(threads) = 2
    /\ threads[1].pc = "finished"
    /\ threads[2].pc = "set_players"

(***************************************************************************)
(* extract_player on salary texts.                                         *)
(***************************************************************************)
Letters == {"a", "N", "A"}
Chars == {"$", ",", "-", " ", "0", "1", "7", "a", "\n"}
ClaimAlphabet == {"$", ",", "-", " "} \cup DigitChars \cup Letters
Examples ==
    { <<"$", "1", ",", "2", "3", "4", ",", "5", "6", "7">>,
      <<"1", "2", "3", "4", "5">>,
      <<"$", "$", "1", "2", "3">>,
      <<"$", "1", ",", "2", "3", ",", "4", "5", "6">>,
      <<"N", "/", "A">>,
      <<"$", "-", "1", "0", "0">>,
      <<>> }
SalaryTexts == UNION {[1..n -> Chars] : n \in 0..MaxLen} \cup Examples

RowOf(text) ==
    [name |-> Td(<<"A">>), salary |-> Td(text),
     year |-> Td(<<"2016">>), level |-> Td(<<"MLB">>)]

InitClassify ==
    /\ AppInit
    /\ threads = <<>>
    /\ salary_text \in SalaryTexts
    /\ player = None
    /\ salary = 0
    /\ shown = None

CallExtractPlayer ==
    /\ player = None
    /\ player' = extract_player(RowOf(salary_text))
    /\ UNCHANGED <<appVars, salary_text, salary, shown>>

NextClassify == CallExtractPlayer

SpecClassify == InitClassify /\ [][NextClassify]_vars

\* the grammar: dollar signs, then digits and commas that start and end with
\* a digit and have no two commas in a row
Grammar(s) ==
    \E d \in 0..Len(s) :
        /\ \A i \in 1..d : s[i] = "$"
        /\ d < Len(s)
        /\ \A i \in (d + 1)..Len(s) : IsDigit(s[i]) \/ s[i] = ","
        /\ IsDigit(s[d + 1])
        /\ IsDigit(s[Len(s)])
        /\ \A i \in (d + 1)..(Len(s) - 1) : ~(s[i] = "," /\ s[i + 1] = ",")

\* the integer written by the digits of s
RECURSIVE DigitsValue(_)
DigitsValue(s) ==
    IF s = <<>> THEN 0
    ELSE LET rest == DigitsValue(SubSeq(s, 1, Len(s) - 1))
         IN  IF IsDigit(s[Len(s)]) THEN 10 * rest + DigitVal(s[Len(s)]) ELSE rest

InClaim(s) == s \in Examples \/ \A i \in 1..Len(s) : s[i] \in ClaimAlphabet

\* C7: a salary text over the claim's alphabet is classified valid exactly
\* when it matches the grammar, and then its salary is the integer read from
\* its digits; every other text is corrupted and is not converted.
C7_ClassifyMatchesGrammar ==
    (player # None /\ InClaim(salary_text)) =>
        /\ player.exc = "none"
        /\ player.val.salary =
              IF Grammar(salary_text)
              THEN IntSalary(DigitsValue(salary_text))
              ELSE StrSalary("No data found")

\* "$1,23,456" has been classified, as the valid salary 123456
C7_Witness ==
    /\ salary_text = <<"$", "1", ",", "2", "3", ",", "4", "5", "6">>
    /\ player # None
    /\ player.val.salary = IntSalary(123456)

(***************************************************************************)
(* display_salary on amounts.                                              *)
(***************************************************************************)
Amounts == (0..MaxAmount) \cup {999999, 1000000, 1002003, 1234567}

InitDisplay ==
    /\ AppInit
    /\ threads = <<>>
    /\ salary_text = <<>>
    /\ player = None
    /\ salary \in Amounts
    /\ shown = None

CallDisplaySalary ==
    /\ shown = None
    /\ shown' = display_salary(IntNum(salary))
    /\ UNCHANGED <<appVars, salary_text, player, salary>>

NextDisplay == CallDisplaySalary

SpecDisplay == InitDisplay /\ [][NextDisplay]_vars

RECURSIVE Pow1000(_)
Pow1000(g) == IF g = 0 THEN 1 ELSE 1000 * Pow1000(g - 1)

\* the number of base-1000 digit groups of n, at least one
RECURSIVE GroupCount(_)
GroupCount(n) == IF n < 1000 THEN 1 ELSE 1 + GroupCount(n \div 1000)

ThreeDigits(x) ==
    <<Digits[(x \div 100) + 1], Digits[((x \div 10) % 10) + 1], Digits[(x % 10) + 1]>>

Unpadded(x) ==
    IF x >= 100 THEN ThreeDigits(x)
    ELSE IF x >= 10 THEN SubSeq(ThreeDigits(x), 2, 3)
    ELSE SubSeq(ThreeDigits(x), 3, 3)

RECURSIVE Grouped(_, _, _)
Grouped(n, g, j) ==
    LET group == (n \div Pow1000(g - j)) % 1000
    IN  IF j = 1
        THEN Unpadded(group) \o (IF g > 1 THEN Grouped(n, g, 2) ELSE <<>>)
        ELSE <<",">> \o ThreeDigits(group)
             \o (IF j < g THEN Grouped(n, g, j + 1) ELSE <<>>)

ClaimedFormat(n) == <<"$">> \o Grouped(n, GroupCount(n), 1)

\* C6: for every amount >= 0, 0 included, display_salary returns "$", then
\* the base-1000 groups of the amount joined by commas, the first unpadded
\* and the others padded to 3 digits; so 0 gives "$0".
C6_FormatsEveryAmount ==
    shown # None => shown = Returned(ClaimedFormat(salary))

====
